---------------------------- MODULE Spec2Model ----------------------------
(***************************************************************************)
(* Moonshot DCA bot: the sentiment multiplier, the dynamic buffer, the     *)
(* allocation planner, the sequential order execution of DCABot.Execute    *)
(* and the portfolio snapshot of CoinbaseService.GetPortfolio.             *)
(*                                                                         *)
(* Decimal values (shopspring/decimal) are exact; they are held here as    *)
(* integers at a fixed scale chosen so that every value the code computes  *)
(* is an integer at that scale:                                            *)
(*   ratio of an interpolation        hundredths   (RatioScale)            *)
(*   multiplier                       thousandths  (MultScale)             *)
(*   buffer fraction, investment      1e-4         (BufScale)              *)
(*   decision amount, order size      1e-6         (AmountScale)           *)
(*   balances, prices, base           whole units                          *)
(***************************************************************************)
EXTENDS Integers, Sequences, FiniteSets, TLC

VARIABLES
    config,          \* DCABot.config: BTCAllocation, ETHAllocation, WeeklyBaseInvestment, Min/MaxMultiplier
    botPortfolio,    \* DCABot.portfolio, kept by the bot instance across calls
    pc,              \* position of the Execute call
    portfolio,       \* local `portfolio` of Execute
    fngIndex,        \* local `fngIndex` of Execute
    decisions,       \* local `decisions` of Execute
    idx,             \* position of the range loop over decisions (1-based)
    executionResult, \* local `executionResult` of Execute
    totalInvested,   \* local `totalInvested` of Execute
    returned,        \* what the last Execute call gave back: none / result / error / panic
    result,          \* the *ExecutionResult returned (NoResult when none)
    orders,          \* orders submitted to the venue during the current run
    attempts,        \* executeBuyOrder calls of the current run, with their outcome
    lookups,         \* getAssetPrice calls of the current run, with their outcome
    planBuffer,      \* local `dynamicBuffer` of calculateBuyDecisions (1e-4)
    snapshotInputs,  \* what the venue answered to GetPortfolio in the current run
    fault            \* the fatal failure met by the current run ("none" if none)

vars == <<config, botPortfolio, pc, portfolio, fngIndex, decisions, idx,
          executionResult, totalInvested, returned, result, orders, attempts, lookups,
          planBuffer, snapshotInputs, fault>>

-----------------------------------------------------------------------------
(* Scales of the fixed-point representation *)
RatioScale  == 100
MultScale   == 1000
BufScale    == 10000
AmountScale == 1000000

(* Bounds of the model *)
OutOfRange == 2      \* how far outside [0,100] a parsed sentiment value may lie
MaxCash    == 3      \* cash balances are multiples of CashStep up to MaxCash * CashStep
MaxPrice   == 2      \* prices returned by the venue lie in 0..MaxPrice

CashStep == 50

MinFNG == 0
MaxFNG == 100

\* Defaults of MIN_MULTIPLIER and MAX_MULTIPLIER (0.5 and 2.0), in thousandths
DefaultMinMultiplier == 500
DefaultMaxMultiplier == 2000

Symbols == {"BTC", "ETH"}

-----------------------------------------------------------------------------
(* decimal.Div for the divisors the calculators use (20 and 25): the       *)
(* quotient terminates within two decimal places, so the 16-digit rounding *)
(* of DivisionPrecision never applies and the result is exact.             *)
RatioDiv(n, d) == (n * RatioScale) \div d

\* Mutant: the first band ends below 20 instead of at 20.
calculateMultiplier_StrictCut(value) ==
    IF value < 20 THEN
        LET ratio == RatioDiv(25 - value, 25) IN 1500 + ratio * 5
    ELSE IF value <= 40 THEN
        LET ratio == RatioDiv(45 - value, 20) IN 1200 + ratio * 3
    ELSE IF value <= 60 THEN
        1000
    ELSE IF value <= 80 THEN
        LET ratio == RatioDiv(75 - value, 20) IN 700 + ratio * 3
    ELSE
        LET ratio == RatioDiv(100 - value, 25) IN 500 + ratio * 2

\* Mutant: the bands interpolate towards their own cut points (20, 40) instead
\* of 25 and 45.
calculateMultiplier_CutPointAnchors(value) ==
    IF value <= 20 THEN
        LET ratio == RatioDiv(20 - value, 20) IN 1500 + ratio * 5
    ELSE IF value <= 40 THEN
        LET ratio == RatioDiv(40 - value, 20) IN 1200 + ratio * 3
    ELSE IF value <= 60 THEN
        1000
    ELSE IF value <= 80 THEN
        LET ratio == RatioDiv(75 - value, 20) IN 700 + ratio * 3
    ELSE
        LET ratio == RatioDiv(100 - value, 25) IN 500 + ratio * 2

\* Mutant: the greed band interpolates upwards (value - 75 instead of 75 - value).
calculateMultiplier_RisingGreed(value) ==
    IF value <= 20 THEN
        LET ratio == RatioDiv(25 - value, 25) IN 1500 + ratio * 5
    ELSE IF value <= 40 THEN
        LET ratio == RatioDiv(45 - value, 20) IN 1200 + ratio * 3
    ELSE IF value <= 60 THEN
        1000
    ELSE IF value <= 80 THEN
        LET ratio == RatioDiv(value - 75, 20) IN 700 + ratio * 3
    ELSE
        LET ratio == RatioDiv(100 - value, 25) IN 500 + ratio * 2

\* Mutant: the first band divides by 20, the width of the other bands.
calculateMultiplier_FirstBandDivisor20(value) ==
    IF value <= 20 THEN
        LET ratio == RatioDiv(25 - value, 20) IN 1500 + ratio * 5
    ELSE IF value <= 40 THEN
        LET ratio == RatioDiv(45 - value, 20) IN 1200 + ratio * 3
    ELSE IF value <= 60 THEN
        1000
    ELSE IF value <= 80 THEN
        LET ratio == RatioDiv(75 - value, 20) IN 700 + ratio * 3
    ELSE
        LET ratio == RatioDiv(100 - value, 25) IN 500 + ratio * 2

(* FNGService.calculateMultiplier, in thousandths *)
calculateMultiplier(value) ==
    IF value <= 20 THEN
        LET ratio == RatioDiv(25 - value, 25) IN 1500 + ratio * 5
    ELSE IF value <= 40 THEN
        LET ratio == RatioDiv(45 - value, 20) IN 1200 + ratio * 3
    ELSE IF value <= 60 THEN
        1000
    ELSE IF value <= 80 THEN
        LET ratio == RatioDiv(75 - value, 20) IN 700 + ratio * 3
    ELSE
        LET ratio == RatioDiv(100 - value, 25) IN 500 + ratio * 2

\* Mutant: the no-buffer band ends below 20 instead of at 20.
calculateDynamicBuffer_StrictCut(fngValue) ==
    IF fngValue < 20 THEN
        0
    ELSE IF fngValue <= 40 THEN
        LET ratio == RatioDiv(40 - fngValue, 20) IN 500 + ratio * 5
    ELSE IF fngValue <= 60 THEN
        LET ratio == RatioDiv(60 - fngValue, 20) IN 1500 + ratio * 5
    ELSE
        2000

(* DCABot.calculateDynamicBuffer, in 1e-4 *)
calculateDynamicBuffer(fngValue) ==
    IF fngValue <= 20 THEN
        0
    ELSE IF fngValue <= 40 THEN
        LET ratio == RatioDiv(40 - fngValue, 20) IN 500 + ratio * 5
    ELSE IF fngValue <= 60 THEN
        LET ratio == RatioDiv(60 - fngValue, 20) IN 1500 + ratio * 5
    ELSE IF fngValue <= 80 THEN
        2000
    ELSE
        2000

-----------------------------------------------------------------------------
(* Inputs of a run *)

\* Weight pairs that pass the startup check btcAlloc + ethAlloc == 100.0
\* (loadConfigFromEnv checks the sum only, not the range of each weight).
Allocations ==
    { <<80, 20>>, <<100, 0>>, <<0, 100>>, <<50, 50>>, <<150, -50>>, <<-50, 150>> }

\* WeeklyBaseInvestment values that pass validateConfig (positive).
BaseInvestments == { 40, 100 }

\* MinMultiplier / MaxMultiplier pairs that pass validateConfig, in thousandths.
MultiplierLimits == { <<500, 2000>>, <<1000, 1000>> }

Configs ==
    { [BTCAllocation |-> a[1], ETHAllocation |-> a[2], WeeklyBaseInvestment |-> b,
       MinMultiplier |-> m[1], MaxMultiplier |-> m[2]] :
        a \in Allocations, b \in BaseInvestments, m \in MultiplierLimits }

CashValues == { c * CashStep : c \in 0..MaxCash }

\* Sentiment values GetFearGreedIndex can parse: every value of [0,100], and
\* values outside it, which Sscanf("%d") accepts as well.
FNGValues == (MinFNG - OutOfRange) .. (MaxFNG + OutOfRange)

\* The string in data[0].value of the FNG answer, as fmt.Sscanf(.., "%d", ..)
\* sees it: text that is no part of a number in front (lead), then an
\* optional integer, then more text (trail).
ValueStrings ==
    { [lead |-> l, hasNumber |-> h, number |-> n, trail |-> t] :
        l \in BOOLEAN, h \in BOOLEAN, n \in FNGValues, t \in BOOLEAN }

\* What the FNG endpoint can answer: the request, the body read or the
\* unmarshalling fails, or a data list of length 0 or 1 arrives.
FNGResponses ==
    { [kind |-> k, data |-> <<>>] : k \in { "fetch_error", "read_error", "unmarshal_error" } }
    \cup { [kind |-> "ok", data |-> <<>>] }
    \cup { [kind |-> "ok", data |-> << v >>] : v \in ValueStrings }

\* A price lookup (GetProduct + NewFromString): an error, or a parsed price.
PriceError == [err |-> TRUE, price |-> 0]
PriceOf(p) == [err |-> FALSE, price |-> p]
PriceResponses == { PriceError } \cup { PriceOf(p) : p \in 0..MaxPrice }

\* What PlaceOrder can answer.
OrderResponses == { "submit_error", "rejected", "success" }

NoPortfolio == [none |-> TRUE]
NoFNG       == [none |-> TRUE]
NoResult    == [none |-> TRUE]

-----------------------------------------------------------------------------
(* CoinbaseService.GetPortfolio over an account listing and the order-book  *)
(* answers. An account is [Currency, Balance]; a book answer is an error,   *)
(* a book with neither bids nor asks, or the best price.                    *)

BookResponses ==
    { [kind |-> "error", price |-> 0], [kind |-> "empty", price |-> 0] }
    \cup { [kind |-> "price", price |-> p] : p \in 0..MaxPrice }

\* Account listings the venue may return.
Listings ==
    { <<>> }
    \cup { << [Currency |-> "USDC", Balance |-> c] >> : c \in CashValues }
    \cup { << [Currency |-> "USDC", Balance |-> c], [Currency |-> "BTC", Balance |-> 1] >> :
             c \in { CashStep } }
    \cup { << [Currency |-> "ETH", Balance |-> 2], [Currency |-> "USDC", Balance |-> CashStep],
              [Currency |-> "DOGE", Balance |-> 7] >> }
    \cup { << [Currency |-> "USDC", Balance |-> CashStep],
              [Currency |-> "USDC", Balance |-> 2 * CashStep] >> }

EmptyPortfolio == [USDCBalance |-> 0, Assets |-> <<>>, TotalValue |-> 0]

\* One iteration of the loop over accounts. Assets is kept as a sequence of
\* [Symbol, Balance, Price, Value] with at most one entry per symbol
\* (a map assignment replaces the entry of the same key).
PutAsset(assets, a) ==
    SelectSeq(assets, LAMBDA e : e.Symbol # a.Symbol) \o << a >>

\* Mutant: an asset whose book lookup failed or came back empty is kept with
\* price 0 instead of being skipped.
AccountStep_KeepsUnpriced(p, account, books) ==
    IF account.Balance = 0 THEN p
    ELSE IF account.Currency = "USDC" THEN
        [p EXCEPT !.USDCBalance = account.Balance,
                  !.TotalValue = p.TotalValue + account.Balance]
    ELSE IF account.Currency \in Symbols THEN
        LET book == books[account.Currency]
            assetValue == account.Balance * book.price
        IN  [p EXCEPT !.TotalValue = p.TotalValue + assetValue,
                      !.Assets = PutAsset(p.Assets,
                                    [Symbol |-> account.Currency, Balance |-> account.Balance,
                                     Price |-> book.price, Value |-> assetValue])]
    ELSE p

AccountStep(p, account, books) ==
    IF account.Balance = 0 THEN p
    ELSE IF account.Currency = "USDC" THEN
        [p EXCEPT !.USDCBalance = account.Balance,
                  !.TotalValue = p.TotalValue + account.Balance]
    ELSE IF account.Currency \in Symbols THEN
        LET book == books[account.Currency] IN
        IF book.kind # "price" THEN p
        ELSE
            LET assetValue == account.Balance * book.price IN
            [p EXCEPT !.TotalValue = p.TotalValue + assetValue,
                      !.Assets = PutAsset(p.Assets,
                                    [Symbol |-> account.Currency, Balance |-> account.Balance,
                                     Price |-> book.price, Value |-> assetValue])]
    ELSE p

RECURSIVE BuildPortfolio(_, _, _)
BuildPortfolio(p, accounts, books) ==
    IF accounts = <<>> THEN p
    ELSE BuildPortfolio(AccountStep(p, Head(accounts), books), Tail(accounts), books)

GetPortfolio(accounts, books) == BuildPortfolio(EmptyPortfolio, accounts, books)

\* GetProductBook is called for symbol s: some account holds a nonzero
\* balance of it.
BookCalled(accounts, s) ==
    \E k \in 1..Len(accounts) : accounts[k].Currency = s /\ accounts[k].Balance # 0

\* The answers GetPortfolio received: the account listing and, per symbol,
\* the kind of book answer ("not_called" when no lookup was made).
SnapshotInputs(accounts, books) ==
    [accounts |-> accounts,
     books |-> [s \in Symbols |-> IF BookCalled(accounts, s) THEN books[s].kind ELSE "not_called"]]

NoSnapshotInputs == [accounts |-> <<>>, books |-> [s \in Symbols |-> "not_called"]]

-----------------------------------------------------------------------------
(* DCABot.calculateBuyDecisions. btcPrice / ethPrice are the answers of the *)
(* two getAssetPrice calls. The result is [decisions, lookups,              *)
(* dynamicBuffer].                                                          *)

Decision(asset, amount, price, fng) ==
    [Asset |-> asset, Action |-> "buy", Amount |-> amount, Price |-> price,
     Multiplier |-> fng.Multiplier, Index |-> fng.Value]

\* Mutant: the amount is not capped by the available balance.
investmentAmountOf_NoCap(cfg, pf, fng) ==
    cfg.WeeklyBaseInvestment * fng.Multiplier * (BufScale \div MultScale)

\* Mutant: the multiplier is clamped to the configured MinMultiplier and
\* MaxMultiplier before it is applied.
investmentAmountOf_ClampsMultiplier(cfg, pf, fng) ==
    LET clamped == IF fng.Multiplier < cfg.MinMultiplier THEN cfg.MinMultiplier
                   ELSE IF fng.Multiplier > cfg.MaxMultiplier THEN cfg.MaxMultiplier
                   ELSE fng.Multiplier
        investmentAmount == cfg.WeeklyBaseInvestment * clamped * (BufScale \div MultScale)
        maxInvestment    == pf.USDCBalance * (BufScale - calculateDynamicBuffer(fng.Value))
    IN  IF investmentAmount > maxInvestment THEN maxInvestment ELSE investmentAmount

\* Mutant: the cap is taken from the portfolio's total value instead of its
\* cash balance.
investmentAmountOf_CapsOnTotalValue(cfg, pf, fng) ==
    LET investmentAmount == cfg.WeeklyBaseInvestment * fng.Multiplier * (BufScale \div MultScale)
        maxInvestment    == pf.TotalValue * (BufScale - calculateDynamicBuffer(fng.Value))
    IN  IF investmentAmount > maxInvestment THEN maxInvestment ELSE investmentAmount

\* investmentAmount after the cap, in 1e-4 USDC
investmentAmountOf(cfg, pf, fng) ==
    LET availableUSDC    == pf.USDCBalance
        baseInvestment   == cfg.WeeklyBaseInvestment
        investmentAmount == baseInvestment * fng.Multiplier * (BufScale \div MultScale)
        dynamicBuffer    == calculateDynamicBuffer(fng.Value)
        maxInvestment    == availableUSDC * (BufScale - dynamicBuffer)
    IN  IF investmentAmount > maxInvestment THEN maxInvestment ELSE investmentAmount

\* Mutant: the early return tests LessThan instead of LessThanOrEqual.
calculateBuyDecisions_StrictZeroCheck(cfg, pf, fng, btcPrice, ethPrice) ==
    LET investmentAmount == investmentAmountOf(cfg, pf, fng)
        buffer == calculateDynamicBuffer(fng.Value)
        look(symbol, response) == [Symbol |-> symbol, err |-> response.err]
    IN
    IF investmentAmount < 0 THEN
        [decisions |-> <<>>, lookups |-> <<>>, dynamicBuffer |-> buffer]
    ELSE
        LET btcInvestment == investmentAmount * cfg.BTCAllocation
            ethInvestment == investmentAmount * cfg.ETHAllocation
            btc == IF ~btcPrice.err /\ btcInvestment > 0
                   THEN << Decision("BTC", btcInvestment, btcPrice.price, fng) >> ELSE <<>>
            eth == IF ~ethPrice.err /\ ethInvestment > 0
                   THEN << Decision("ETH", ethInvestment, ethPrice.price, fng) >> ELSE <<>>
        IN  [decisions |-> btc \o eth,
             lookups |-> << look("BTC", btcPrice), look("ETH", ethPrice) >>,
             dynamicBuffer |-> buffer]

\* Mutant: a failed price lookup empties the whole plan.
calculateBuyDecisions_AbortsOnLookupError(cfg, pf, fng, btcPrice, ethPrice) ==
    LET investmentAmount == investmentAmountOf(cfg, pf, fng)
        buffer == calculateDynamicBuffer(fng.Value)
        look(symbol, response) == [Symbol |-> symbol, err |-> response.err]
    IN
    IF investmentAmount <= 0 THEN
        [decisions |-> <<>>, lookups |-> <<>>, dynamicBuffer |-> buffer]
    ELSE
        LET btcInvestment == investmentAmount * cfg.BTCAllocation
            ethInvestment == investmentAmount * cfg.ETHAllocation
            btc == IF btcInvestment > 0
                   THEN << Decision("BTC", btcInvestment, btcPrice.price, fng) >> ELSE <<>>
            eth == IF ethInvestment > 0
                   THEN << Decision("ETH", ethInvestment, ethPrice.price, fng) >> ELSE <<>>
        IN  [decisions |-> IF btcPrice.err \/ ethPrice.err THEN <<>> ELSE btc \o eth,
             lookups |-> << look("BTC", btcPrice), look("ETH", ethPrice) >>,
             dynamicBuffer |-> buffer]

\* One getAssetPrice call and whether it returned an error
Lookup(symbol, response) == [Symbol |-> symbol, err |-> response.err]

calculateBuyDecisions(cfg, pf, fng, btcPrice, ethPrice) ==
    LET investmentAmount == investmentAmountOf(cfg, pf, fng)
        buffer == calculateDynamicBuffer(fng.Value)
    IN
    IF investmentAmount <= 0 THEN
        [decisions |-> <<>>, lookups |-> <<>>, dynamicBuffer |-> buffer]
    ELSE
        \* x 1e-4 amount by a percentage, divided by 100: 1e-6 USDC, exact
        LET btcInvestment == investmentAmount * cfg.BTCAllocation
            ethInvestment == investmentAmount * cfg.ETHAllocation
            btc == IF ~btcPrice.err /\ btcInvestment > 0
                   THEN << Decision("BTC", btcInvestment, btcPrice.price, fng) >> ELSE <<>>
            eth == IF ~ethPrice.err /\ ethInvestment > 0
                   THEN << Decision("ETH", ethInvestment, ethPrice.price, fng) >> ELSE <<>>
        IN  [decisions |-> btc \o eth,
             lookups |-> << Lookup("BTC", btcPrice), Lookup("ETH", ethPrice) >>,
             dynamicBuffer |-> buffer]

-----------------------------------------------------------------------------
(* DCABot.executeBuyOrder, up to the PlaceOrder call *)

\* Mutant: the balance check also rejects an amount equal to the balance.
insufficientBalance_RejectsEqual(pf, decision) ==
    pf.USDCBalance * AmountScale <= decision.Amount

\* b.portfolio.USDCBalance.LessThan(decision.Amount)
insufficientBalance(pf, decision) == pf.USDCBalance * AmountScale < decision.Amount

\* decision.Amount.Div(decision.Price) for a nonzero price, rounded half up
\* at the model's precision of 1e-6
orderSize(decision) == (2 * decision.Amount + decision.Price) \div (2 * decision.Price)

\* productID := decision.Asset + "-USDC"
productIDOf(decision) == decision.Asset \o "-USDC"

\* The request CoinbaseService.PlaceOrder builds for orderType "market":
\* the size string goes into MarketMarketIoc.QuoteSize.
PlaceOrderRequest(productID, side, size, n) ==
    [ProductId |-> productID, Side |-> side, Type |-> "MarketMarketIoc",
     QuoteSize |-> size, decision |-> n]

\* Mutant: only err != nil is checked, orderResp.Success is not.
placeOrderError_IgnoresSuccessFlag(response) ==
    IF response = "submit_error" THEN "failed to place order" ELSE ""

\* The tail of executeBuyOrder: the error it returns for a PlaceOrder answer
\* ("" for nil): err != nil, or orderResp.Success false.
placeOrderError(response) ==
    IF response = "submit_error" THEN "failed to place order"
    ELSE IF response = "rejected" THEN "order failed"
    ELSE ""

-----------------------------------------------------------------------------
(* FNGService.GetFearGreedIndex over an answer of the endpoint *)

\* fmt.Sscanf(data.Value, "%d", &value): fails unless the text starts with an
\* integer; text after the integer is left unread.
Sscanf(str) ==
    IF str.lead \/ ~str.hasNumber THEN [err |-> TRUE, value |-> 0]
    ELSE [err |-> FALSE, value |-> str.number]

FNGError(e) == [err |-> e, Value |-> 0, Multiplier |-> 0]

GetFearGreedIndex(response) ==
    IF response.kind # "ok" THEN FNGError(response.kind)
    ELSE IF Len(response.data) = 0 THEN FNGError("empty_data")
    ELSE
        LET parsed == Sscanf(response.data[1]) IN
        IF parsed.err THEN FNGError("unparseable")
        ELSE [err |-> "", Value |-> parsed.value,
              Multiplier |-> calculateMultiplier(parsed.value)]

-----------------------------------------------------------------------------
(* The state machine of DCABot.Execute on the one bot instance of the       *)
(* process (cmd/moonshot/main.go: dcaBot).                                  *)

Init ==
    /\ config \in Configs
    /\ botPortfolio = NoPortfolio
    /\ pc = "idle"
    /\ portfolio = NoPortfolio
    /\ fngIndex = NoFNG
    /\ decisions = <<>>
    /\ idx = 0
    /\ executionResult = NoResult
    /\ totalInvested = 0
    /\ returned = "none"
    /\ result = NoResult
    /\ orders = <<>>
    /\ attempts = <<>>
    /\ lookups = <<>>
    /\ planBuffer = 0
    /\ snapshotInputs = NoSnapshotInputs
    /\ fault = "none"

\* handleRequest calls dcaBot.Execute(): the locals of the new call are fresh.
ExecuteStart ==
    /\ pc = "idle"
    /\ pc' = "GetPortfolio"
    /\ portfolio' = NoPortfolio
    /\ fngIndex' = NoFNG
    /\ decisions' = <<>>
    /\ idx' = 0
    /\ executionResult' = NoResult
    /\ totalInvested' = 0
    /\ returned' = "none"
    /\ result' = NoResult
    /\ orders' = <<>>
    /\ attempts' = <<>>
    /\ lookups' = <<>>
    /\ planBuffer' = 0
    /\ snapshotInputs' = NoSnapshotInputs
    /\ fault' = "none"
    /\ UNCHANGED <<config, botPortfolio>>

\* Execute returns (nil, err)
ReturnError(cause) ==
    /\ pc' = "idle"
    /\ returned' = "error"
    /\ result' = NoResult
    /\ fault' = cause

\* Mutant: when the account listing fails, Execute goes on with the portfolio
\* the bot kept from an earlier run.
GetPortfolioFail_UsesStalePortfolio ==
    /\ pc = "GetPortfolio"
    /\ IF botPortfolio = NoPortfolio
       THEN /\ ReturnError("accounts")
            /\ UNCHANGED portfolio
       ELSE /\ pc' = "GetFearGreedIndex"
            /\ portfolio' = botPortfolio
            /\ fault' = "accounts"
            /\ UNCHANGED <<returned, result>>
    /\ UNCHANGED <<config, botPortfolio, fngIndex, decisions, idx,
                   executionResult, totalInvested, orders, attempts, lookups, planBuffer,
                   snapshotInputs>>

\* GetAccounts fails: GetPortfolio returns the error, Execute returns it.
GetPortfolioFail ==
    /\ pc = "GetPortfolio"
    /\ ReturnError("accounts")
    /\ UNCHANGED <<config, botPortfolio, portfolio, fngIndex, decisions, idx,
                   executionResult, totalInvested, orders, attempts, lookups, planBuffer,
                   snapshotInputs>>

\* Mutant: b.portfolio is set only while it is still nil, so later runs plan
\* and check against the first run's snapshot.
GetPortfolioOk_KeepsFirstPortfolio ==
    /\ pc = "GetPortfolio"
    /\ \E accounts \in Listings, books \in [Symbols -> BookResponses] :
          /\ portfolio' = GetPortfolio(accounts, books)
          /\ snapshotInputs' = SnapshotInputs(accounts, books)
          /\ botPortfolio' = IF botPortfolio = NoPortfolio THEN portfolio' ELSE botPortfolio
    /\ pc' = "GetFearGreedIndex"
    /\ UNCHANGED <<config, fngIndex, decisions, idx, executionResult, totalInvested,
                   returned, result, orders, attempts, lookups, planBuffer, fault>>

\* GetPortfolio succeeds; b.portfolio = portfolio
GetPortfolioOk ==
    /\ pc = "GetPortfolio"
    /\ \E accounts \in Listings, books \in [Symbols -> BookResponses] :
          /\ portfolio' = GetPortfolio(accounts, books)
          /\ snapshotInputs' = SnapshotInputs(accounts, books)
          /\ botPortfolio' = portfolio'
    /\ pc' = "GetFearGreedIndex"
    /\ UNCHANGED <<config, fngIndex, decisions, idx, executionResult, totalInvested,
                   returned, result, orders, attempts, lookups, planBuffer, fault>>

\* GetFearGreedIndex returns an error, Execute returns it.
GetFearGreedIndexFail ==
    /\ pc = "GetFearGreedIndex"
    /\ \E response \in FNGResponses :
          LET fng == GetFearGreedIndex(response) IN
          /\ fng.err # ""
          /\ ReturnError(fng.err)
    /\ UNCHANGED <<config, botPortfolio, portfolio, fngIndex, decisions, idx,
                   executionResult, totalInvested, orders, attempts, lookups, planBuffer,
                   snapshotInputs>>

\* GetFearGreedIndex returns the index with its multiplier.
GetFearGreedIndexOk ==
    /\ pc = "GetFearGreedIndex"
    /\ \E response \in FNGResponses :
          LET fng == GetFearGreedIndex(response) IN
          /\ fng.err = ""
          /\ fngIndex' = [Value |-> fng.Value, Multiplier |-> fng.Multiplier]
    /\ pc' = "calculateBuyDecisions"
    /\ UNCHANGED <<config, botPortfolio, portfolio, decisions, idx, executionResult,
                   totalInvested, returned, result, orders, attempts, lookups, planBuffer,
                   snapshotInputs, fault>>

\* The executionResult Execute builds after planning.
NewExecutionResult(ds, pf, fng) ==
    [Success |-> TRUE, Error |-> "", Decisions |-> ds, Portfolio |-> pf, FNGIndex |-> fng,
     TotalInvested |-> 0, TotalSold |-> 0]

\* calculateBuyDecisions (it never returns an error), then the construction of
\* executionResult and of the loop's counters.
CalculateBuyDecisions ==
    /\ pc = "calculateBuyDecisions"
    /\ \E btcPrice \in PriceResponses, ethPrice \in PriceResponses :
          LET plan == calculateBuyDecisions(config, botPortfolio, fngIndex, btcPrice, ethPrice) IN
          /\ decisions' = plan.decisions
          /\ lookups' = plan.lookups
          /\ planBuffer' = plan.dynamicBuffer
          /\ executionResult' = NewExecutionResult(plan.decisions, portfolio, fngIndex)
    /\ totalInvested' = 0
    /\ idx' = 1
    /\ pc' = "loop"
    /\ UNCHANGED <<config, botPortfolio, portfolio, fngIndex, returned, result, orders,
                   attempts, snapshotInputs, fault>>

Attempt(n, outcome) == [decision |-> n, outcome |-> outcome]

\* Mutant: totalInvested is accumulated on both branches.
accumulate_AlwaysAdds(total, decision, err) == total + decision.Amount

\* Mutant: the loop breaks at the first failed decision.
nextDecision_StopsOnFailure(i, err) == IF err # "" THEN Len(decisions) + 1 ELSE i + 1

\* Mutant: a failed decision is attempted again.
nextDecision_Retries(i, err) == IF err # "" THEN i ELSE i + 1

\* Mutant: Error keeps the message of the first failure.
recordOutcome_KeepsFirstError(res, err) ==
    IF err # "" THEN [res EXCEPT !.Success = FALSE,
                                 !.Error = IF res.Error = "" THEN err ELSE res.Error]
    ELSE res

\* The loop body of Execute, given the error executeBuyOrder returned
\* ("" for nil): the failure branch sets Success and Error, the other one
\* accumulates totalInvested.
recordOutcome(res, err) ==
    IF err # "" THEN [res EXCEPT !.Success = FALSE, !.Error = err] ELSE res

accumulate(total, decision, err) ==
    IF err # "" THEN total ELSE total + decision.Amount

\* `for _, decision := range decisions`: the next position after an iteration
nextDecision(i, err) == i + 1

\* One iteration of the loop: executeBuyOrder fails on the balance check.
ExecuteBuyOrderInsufficient ==
    /\ pc = "loop" /\ idx <= Len(decisions)
    /\ decisions[idx].Action = "buy"
    /\ insufficientBalance(botPortfolio, decisions[idx])
    /\ LET err == "insufficient USDC balance" IN
          /\ executionResult' = recordOutcome(executionResult, err)
          /\ totalInvested' = accumulate(totalInvested, decisions[idx], err)
          /\ idx' = nextDecision(idx, err)
    /\ attempts' = Append(attempts, Attempt(idx, "insufficient"))
    /\ UNCHANGED <<config, botPortfolio, pc, portfolio, fngIndex, decisions,
                   returned, result, orders, lookups, planBuffer, snapshotInputs, fault>>

\* decision.Amount.Div(decision.Price) with a zero price panics (division by
\* zero in shopspring/decimal); nothing recovers, the process dies.
ExecuteBuyOrderPanic ==
    /\ pc = "loop" /\ idx <= Len(decisions)
    /\ decisions[idx].Action = "buy"
    /\ ~insufficientBalance(botPortfolio, decisions[idx])
    /\ decisions[idx].Price = 0
    /\ attempts' = Append(attempts, Attempt(idx, "panic"))
    /\ pc' = "crashed"
    /\ returned' = "panic"
    /\ UNCHANGED <<config, botPortfolio, portfolio, fngIndex, decisions, idx, executionResult,
                   totalInvested, result, orders, lookups, planBuffer, snapshotInputs, fault>>

\* One iteration of the loop: the order is submitted and the venue answers.
ExecuteBuyOrderSubmit ==
    /\ pc = "loop" /\ idx <= Len(decisions)
    /\ decisions[idx].Action = "buy"
    /\ ~insufficientBalance(botPortfolio, decisions[idx])
    /\ decisions[idx].Price # 0
    /\ orders' = Append(orders,
                    PlaceOrderRequest(productIDOf(decisions[idx]), "BUY", orderSize(decisions[idx]), idx))
    /\ \E response \in OrderResponses :
          LET err == placeOrderError(response) IN
          /\ attempts' = Append(attempts, Attempt(idx, response))
          /\ executionResult' = recordOutcome(executionResult, err)
          /\ totalInvested' = accumulate(totalInvested, decisions[idx], err)
          /\ idx' = nextDecision(idx, err)
    /\ UNCHANGED <<config, botPortfolio, pc, portfolio, fngIndex, decisions, returned,
                   result, lookups, planBuffer, snapshotInputs, fault>>

\* Mutant: TotalSold is set from the invested total.
ExecuteReturn_SoldFromInvested ==
    /\ pc = "loop" /\ idx > Len(decisions)
    /\ executionResult' = [executionResult EXCEPT !.TotalInvested = totalInvested,
                                                  !.TotalSold = totalInvested]
    /\ result' = executionResult'
    /\ returned' = "result"
    /\ pc' = "idle"
    /\ UNCHANGED <<config, botPortfolio, portfolio, fngIndex, decisions, idx, totalInvested,
                   orders, attempts, lookups, planBuffer, snapshotInputs, fault>>

\* After the loop: the totals are stored and Execute returns (executionResult, nil).
ExecuteReturn ==
    /\ pc = "loop" /\ idx > Len(decisions)
    /\ executionResult' = [executionResult EXCEPT !.TotalInvested = totalInvested,
                                                  !.TotalSold = 0]
    /\ result' = executionResult'
    /\ returned' = "result"
    /\ pc' = "idle"
    /\ UNCHANGED <<config, botPortfolio, portfolio, fngIndex, decisions, idx, totalInvested,
                   orders, attempts, lookups, planBuffer, snapshotInputs, fault>>

Next ==
    \/ ExecuteStart
    \/ GetPortfolioFail
    \/ GetPortfolioOk
    \/ GetFearGreedIndexFail
    \/ GetFearGreedIndexOk
    \/ CalculateBuyDecisions
    \/ ExecuteBuyOrderInsufficient
    \/ ExecuteBuyOrderPanic
    \/ ExecuteBuyOrderSubmit
    \/ ExecuteReturn

Spec == Init /\ [][Next]_vars

-----------------------------------------------------------------------------
(* Properties *)

FailureOutcomes == { "insufficient", "submit_error", "rejected" }

\* The outcome recorded for decision n ("none" if it was never attempted)
OutcomeOf(n) ==
    IF \E k \in 1..Len(attempts) : attempts[k].decision = n
    THEN attempts[CHOOSE k \in 1..Len(attempts) : attempts[k].decision = n].outcome
    ELSE "none"

RECURSIVE SumSucceeded(_)
\* Sum of Amount over the first n decisions whose order submission succeeded
SumSucceeded(n) ==
    IF n = 0 THEN 0
    ELSE SumSucceeded(n - 1) + (IF OutcomeOf(n) = "success" THEN decisions[n].Amount ELSE 0)

RECURSIVE SumAmounts(_)
\* Sum of Amount over a sequence of decisions
SumAmounts(ds) == IF ds = <<>> THEN 0 ELSE Head(ds).Amount + SumAmounts(Tail(ds))

\* C1: in a returned result, Success is false iff at least one planned
\* decision failed (balance check, submission error or venue rejection);
\* with an empty plan or all decisions succeeding it is true.
C1_SuccessIffNoFailure ==
    returned = "result" =>
        /\ result.Success = ~(\E n \in 1..Len(decisions) : OutcomeOf(n) \in FailureOutcomes)
        /\ (decisions = <<>> => result.Success)
        /\ ((\A n \in 1..Len(decisions) : OutcomeOf(n) = "success") => result.Success)

C1_Witness ==
    /\ returned = "result"
    /\ Len(decisions) = 2
    /\ OutcomeOf(1) = "success"
    /\ OutcomeOf(2) = "rejected"
    /\ ~result.Success

\* C2: in a returned result, TotalInvested is the sum of Amount over exactly
\* the decisions whose order submission succeeded.
C2_TotalInvestedIsSumOfSucceeded ==
    returned = "result" => result.TotalInvested = SumSucceeded(Len(decisions))

C2_Witness ==
    /\ returned = "result"
    /\ Len(decisions) = 2
    /\ OutcomeOf(1) = "success"
    /\ OutcomeOf(2) = "submit_error"
    /\ result.TotalInvested = decisions[1].Amount
    /\ result.TotalInvested > 0

\* C3: decisions are attempted one after another in plan order (BTC before
\* ETH), and when Execute returns a result every planned decision has been
\* attempted, whatever the earlier ones did.
C3_AllAttemptedInOrder ==
    /\ \A k \in 1..Len(attempts) : attempts[k].decision = k
    /\ Len(attempts) <= Len(decisions)
    /\ (Len(decisions) = 2 => decisions[1].Asset = "BTC" /\ decisions[2].Asset = "ETH")
    /\ (returned = "result" => Len(attempts) = Len(decisions))

C3_Witness ==
    /\ returned = "result"
    /\ Len(decisions) = 2
    /\ OutcomeOf(1) \in FailureOutcomes
    /\ OutcomeOf(2) = "success"

\* C4: within one run at most one order is submitted per planned decision,
\* and a failed decision is never attempted again.
C4_NoRetries ==
    /\ \A j, k \in 1..Len(orders) : j # k => orders[j].decision # orders[k].decision
    /\ \A j, k \in 1..Len(attempts) : j # k => attempts[j].decision # attempts[k].decision
    /\ Len(orders) <= Len(decisions)

C4_Witness ==
    /\ returned = "result"
    /\ Len(decisions) = 2
    /\ Len(orders) = 2
    /\ OutcomeOf(1) = "rejected"
    /\ OutcomeOf(2) = "submit_error"

\* C5: when the account listing fails, or the sentiment fetch fails, returns
\* an empty data list or a value that cannot be parsed, Execute returns an
\* error with no result, and no order was submitted in that run.
C5_FatalErrorsAbortBeforeOrders ==
    fault # "none" =>
        /\ fault \in { "accounts", "fetch_error", "read_error", "unmarshal_error",
                       "empty_data", "unparseable" }
        /\ pc = "idle"
        /\ returned = "error"
        /\ result = NoResult
        /\ orders = <<>>
        /\ attempts = <<>>

C5_Witness ==
    /\ fault = "empty_data"
    /\ returned = "error"
    /\ botPortfolio # NoPortfolio
    /\ botPortfolio.USDCBalance > 0

\* The planner has run on an in-range sentiment value
Planned == pc = "loop" /\ fngIndex.Value \in MinFNG..MaxFNG

\* cashBalance x (1 - bufferFraction(value)), in 1e-6 USDC
CapOf(pf, value) ==
    pf.USDCBalance * (BufScale - calculateDynamicBuffer(value)) * (AmountScale \div BufScale)

\* C6: for every accepted weight pair (BTC + ETH = 100), positive base
\* investment, cash balance and sentiment value in [0,100], the amounts of the
\* planned decisions sum to at most cashBalance x (1 - bufferFraction(value)).
C6_NoOverInvestment ==
    Planned => SumAmounts(decisions) <= CapOf(botPortfolio, fngIndex.Value)

\* C7: for every sentiment value in [0,100] and every positive cash balance
\* the total planned for purchase is strictly less than the cash balance.
\* Stated for weights inside [0,100], so that a violation does not rest on
\* the weights of C6.
C7_BufferAlwaysReserves ==
    ( /\ Planned
      /\ config.BTCAllocation \in 0..100
      /\ config.ETHAllocation \in 0..100
      /\ botPortfolio.USDCBalance > 0 )
    => SumAmounts(decisions) < botPortfolio.USDCBalance * AmountScale

\* The band table of the multiplier, as an equation between v and the
\* multiplier m (in thousandths), each side multiplied by the band's divisor.
MultiplierTable(v, m) ==
    IF v <= 20 THEN m * 25 = 1500 * 25 + (25 - v) * 500
    ELSE IF v <= 40 THEN m * 20 = 1200 * 20 + (45 - v) * 300
    ELSE IF v <= 60 THEN m = 1000
    ELSE IF v <= 80 THEN m * 20 = 700 * 20 + (75 - v) * 300
    ELSE m * 25 = 500 * 25 + (100 - v) * 200

\* GetFearGreedIndex has returned an index with an in-range value
HasIndex == fngIndex # NoFNG /\ fngIndex.Value \in MinFNG..MaxFNG

Approx(m, t) == m - t \in -1..1

C10_ReadmeRanges ==
    HasIndex =>
        LET v == fngIndex.Value
            m == fngIndex.Multiplier
        IN  /\ (v \in 0..20 => m \in 1500..2000)
            /\ (v \in 21..40 => m \in 1200..1500)
            /\ (v \in 41..60 => m = 1000)
            /\ (v \in 61..80 => m \in 700..1000)
            /\ (v \in 81..100 => m \in 500..700)

\* C11: for every v outside [0,100] the multiplier and the buffer calculators
\* fail with a range error instead of returning a number, so a sentiment
\* reading outside [0,100] never yields an index, a plan or an amount.
C11_OutOfRangeRejected ==
    /\ (fngIndex # NoFNG => fngIndex.Value \in MinFNG..MaxFNG)
    /\ (decisions # <<>> => fngIndex.Value \in MinFNG..MaxFNG)

\* The band table of the buffer, as an equation between v and the buffer b
\* (in 1e-4), each side multiplied by the band's divisor.
BufferTable(v, b) ==
    IF v <= 20 THEN b = 0
    ELSE IF v <= 40 THEN b * 20 = 500 * 20 + (40 - v) * 500
    ELSE IF v <= 60 THEN b * 20 = 1500 * 20 + (60 - v) * 500
    ELSE b = 2000

\* C12: for every v in [0,100] the buffer the planner computes lies in
\* [0, 0.20] and equals the band table: 0 for v <= 20,
\* 0.05 + ((40 - v)/20) x 0.05 for 21-40, 0.15 + ((60 - v)/20) x 0.05 for
\* 41-60, 0.20 for 61-100; bufferFraction(0) = 0 and
\* bufferFraction(61) = bufferFraction(100) = 0.20.
C12_BufferMatchesTable ==
    Planned =>
        /\ planBuffer \in 0..2000
        /\ BufferTable(fngIndex.Value, planBuffer)
        /\ (fngIndex.Value = 0 => planBuffer = 0)
        /\ (fngIndex.Value \in { 61, 100 } => planBuffer = 2000)

C12_Witness ==
    /\ Planned
    /\ fngIndex.Value = 30
    /\ planBuffer = 750
    /\ decisions # <<>>

\* The planner of the current run has returned
PlanDone == pc \in { "loop", "crashed" } \/ returned = "result"

\* min(baseInvestment x multiplier, cashBalance x (1 - buffer)) over the
\* run's snapshot, index and buffer, in 1e-4 USDC
Investable ==
    LET rawAmount == config.WeeklyBaseInvestment * fngIndex.Multiplier * (BufScale \div MultScale)
        cap       == portfolio.USDCBalance * (BufScale - planBuffer)
    IN  IF rawAmount < cap THEN rawAmount ELSE cap

\* The configured weight of an asset, in percent
WeightOf(asset) == IF asset = "BTC" THEN config.BTCAllocation ELSE config.ETHAllocation

\* investable x weightPercent / 100, in 1e-6 USDC
ShareOf(asset) == Investable * WeightOf(asset)

DecisionsFor(asset) == SelectSeq(decisions, LAMBDA d : d.Asset = asset)

LookupFailed(asset) ==
    \E k \in 1..Len(lookups) : lookups[k].Symbol = asset /\ lookups[k].err

\* C13: every decision's amount is investable x weightPercent / 100 with
\* investable = min(baseInvestment x multiplier, cashBalance x (1 - buffer));
\* when no asset is skipped the amounts sum to investable exactly and are
\* split in the configured ratio (80/20 by default).
C13_PlannerSplit ==
    PlanDone =>
        /\ \A k \in 1..Len(decisions) : decisions[k].Amount = ShareOf(decisions[k].Asset)
        /\ (Len(decisions) = 2 =>
              /\ SumAmounts(decisions) = Investable * 100
              /\ decisions[1].Amount % config.BTCAllocation = 0
              /\ decisions[2].Amount % config.ETHAllocation = 0
              /\ decisions[1].Amount \div config.BTCAllocation
                    = decisions[2].Amount \div config.ETHAllocation
              /\ (config.BTCAllocation = 80 /\ config.ETHAllocation = 20
                    => decisions[1].Amount = 4 * decisions[2].Amount))

C13_Witness ==
    /\ PlanDone
    /\ Len(decisions) = 2
    /\ config.BTCAllocation = 80
    /\ fngIndex.Value = 50
    /\ portfolio.USDCBalance = 2 * CashStep
    /\ config.WeeklyBaseInvestment = 100
    /\ decisions[1].Amount = 4 * decisions[2].Amount

\* C14: when the snapshot's cash balance is 0 (or investable is otherwise
\* <= 0) the planner returns an empty plan without error, no price lookup and
\* no order is issued, and the result has Success true and TotalInvested 0.
C14_ZeroFunds ==
    (PlanDone /\ (portfolio.USDCBalance = 0 \/ Investable <= 0)) =>
        /\ decisions = <<>>
        /\ lookups = <<>>
        /\ orders = <<>>
        /\ fault = "none"
        /\ pc # "crashed"
        /\ (returned = "result" => result.Success /\ result.TotalInvested = 0
                                   /\ result.Decisions = <<>>)

C14_Witness ==
    /\ returned = "result"
    /\ portfolio.USDCBalance = 0
    /\ result.Success
    /\ result.TotalInvested = 0
    /\ lookups = <<>>

\* C15: if the price lookup fails for an asset, that asset gets no decision,
\* planning returns no error, and an asset whose lookup succeeded still gets
\* its decision with the amount investable x weightPercent / 100.
C15_LookupFailureDegrades ==
    (PlanDone /\ Investable > 0) =>
        /\ fault = "none"
        /\ Len(lookups) = 2
        /\ \A asset \in Symbols :
              IF LookupFailed(asset) \/ ShareOf(asset) <= 0
              THEN DecisionsFor(asset) = <<>>
              ELSE /\ Len(DecisionsFor(asset)) = 1
                   /\ DecisionsFor(asset)[1].Amount = ShareOf(asset)

C15_Witness ==
    /\ PlanDone
    /\ LookupFailed("BTC")
    /\ ~LookupFailed("ETH")
    /\ config.ETHAllocation = 20
    /\ Len(decisions) = 1
    /\ decisions[1].Asset = "ETH"
    /\ decisions[1].Amount = ShareOf("ETH")
    /\ decisions[1].Amount > 0

\* The quote-currency value of a submitted market order: an order
\* configured with QuoteSize spends that amount of the quote currency.
QuoteValue(order) == order.QuoteSize

\* C16: the order submitted for a decision is a market buy whose
\* quote-currency value equals the decision's cashAmount (size =
\* cashAmount / referencePrice units of the asset).
C16_OrderValueIsAmount ==
    \A k \in 1..Len(orders) :
        /\ orders[k].Side = "BUY"
        /\ orders[k].Type = "MarketMarketIoc"
        /\ QuoteValue(orders[k]) = decisions[orders[k].decision].Amount

\* C17: each decision is checked against the cash balance of the run's
\* snapshot (not reduced by earlier orders of the run); if the balance is
\* less than the amount the decision fails without an order being submitted
\* for it, and the loop goes on.
C17_BalanceRevalidated ==
    /\ \A k \in 1..Len(attempts) :
          LET n == attempts[k].decision IN
          /\ (attempts[k].outcome = "insufficient")
                = (portfolio.USDCBalance * AmountScale < decisions[n].Amount)
          /\ (attempts[k].outcome = "insufficient"
                => \A j \in 1..Len(orders) : orders[j].decision # n)
    /\ (returned = "result" => Len(attempts) = Len(decisions))

C17_Witness ==
    /\ returned = "result"
    /\ Len(decisions) = 1
    /\ OutcomeOf(1) = "insufficient"
    /\ orders = <<>>
    /\ ~result.Success
    /\ result.TotalInvested = 0

RECURSIVE SumValues(_)
\* Sum of Value over the entries of Assets
SumValues(assets) == IF assets = <<>> THEN 0 ELSE Head(assets).Value + SumValues(Tail(assets))

\* C18: the snapshot built by GetPortfolio satisfies TotalValue =
\* USDCBalance + the sum of Value over Assets, and every entry has
\* Value = Balance x Price.
C18_TotalValueIsSum ==
    portfolio # NoPortfolio =>
        /\ portfolio.TotalValue = portfolio.USDCBalance + SumValues(portfolio.Assets)
        /\ \A k \in 1..Len(portfolio.Assets) :
              portfolio.Assets[k].Value = portfolio.Assets[k].Balance * portfolio.Assets[k].Price

\* C19: the only state-changing venue operation of a run is a market order
\* with side BUY, one per submitted decision and none added after a failure;
\* TotalSold is 0 in every result.
C19_BuyOnly ==
    /\ \A k \in 1..Len(orders) : orders[k].Side = "BUY" /\ orders[k].Type = "MarketMarketIoc"
    /\ Len(orders) = Cardinality({ k \in 1..Len(attempts) : attempts[k].outcome \in OrderResponses })
    /\ (returned = "result" => result.TotalSold = 0)

C19_Witness ==
    /\ returned = "result"
    /\ Len(orders) = 2
    /\ OutcomeOf(1) = "success"
    /\ OutcomeOf(2) = "rejected"
    /\ result.TotalInvested > 0
    /\ result.TotalSold = 0

\* C20: over any sequence of Execute calls on the bot instance, planning and
\* the balance checks use the snapshot built in the same run, and a run whose
\* snapshot fails aborts instead of using the portfolio of an earlier run.
C20_NoStateLeak ==
    /\ (pc \in { "GetFearGreedIndex", "calculateBuyDecisions", "loop" }
          => portfolio # NoPortfolio /\ botPortfolio = portfolio)
    /\ (PlanDone => \A k \in 1..Len(decisions) :
                        decisions[k].Amount = ShareOf(decisions[k].Asset))
    /\ (PlanDone => \A k \in 1..Len(attempts) :
                        (attempts[k].outcome = "insufficient")
                          = (portfolio.USDCBalance * AmountScale
                                < decisions[attempts[k].decision].Amount))
    /\ (returned = "result" => result.Portfolio = portfolio)
    /\ (fault = "accounts" =>
            returned = "error" /\ portfolio = NoPortfolio /\ decisions = <<>> /\ orders = <<>>)

C20_Witness ==
    /\ fault = "accounts"
    /\ returned = "error"
    /\ botPortfolio # NoPortfolio
    /\ botPortfolio.USDCBalance > 0
    /\ orders = <<>>

\* The first value of the band v lies in
BandStart(v) ==
    IF v <= 20 THEN 0 ELSE IF v <= 40 THEN 21 ELSE IF v <= 60 THEN 41
    ELSE IF v <= 80 THEN 61 ELSE 81

\* C21: for every v in [0,100] the multiplier is positive, and within each of
\* the five bands (0-20, 21-40, 41-60, 61-80, 81-100) it is non-increasing in
\* v: the multiplier of the index is at most that of every lower value of the
\* same band.
C21_PositiveAndMonotoneInBand ==
    HasIndex =>
        /\ fngIndex.Multiplier > 0
        /\ \A u \in BandStart(fngIndex.Value)..fngIndex.Value :
              fngIndex.Multiplier <= calculateMultiplier(u)

C21_Witness ==
    /\ HasIndex
    /\ fngIndex.Value = 79
    /\ fngIndex.Multiplier = 640
    /\ calculateMultiplier(61) = 910

\* C22: lower sentiment never buys less: for all integers v1 < v2 in [0,100],
\* multiplier(v1) >= multiplier(v2), the band cut points 20/21, 40/41, 60/61
\* and 80/81 included.
C22_MonotoneAcrossBands ==
    HasIndex =>
        \A v1 \in MinFNG..fngIndex.Value : calculateMultiplier(v1) >= fngIndex.Multiplier

\* C23: every decision emitted by the planner has a reference price above 0,
\* whatever price the lookup returned without error, so that the division
\* Amount / Price of executeBuyOrder is always defined.
\* Stated for a sentiment value and weights inside [0,100], so that a
\* violation does not rest on the inputs of C6 and C11.
C23_PricePositive ==
    ( /\ pc \in { "loop", "crashed" }
      /\ fngIndex.Value \in MinFNG..MaxFNG
      /\ config.BTCAllocation \in 0..100
      /\ config.ETHAllocation \in 0..100 )
    => /\ \A k \in 1..Len(decisions) : decisions[k].Price > 0
       /\ pc # "crashed"

RECURSIVE SumCash(_)
\* Sum of the USDC balances of an account listing
SumCash(accounts) ==
    IF accounts = <<>> THEN 0
    ELSE (IF Head(accounts).Currency = "USDC" THEN Head(accounts).Balance ELSE 0)
         + SumCash(Tail(accounts))

\* GetPortfolio has returned a snapshot in the current run
SnapshotReturned == portfolio # NoPortfolio

HasAsset(pf, s) == \E k \in 1..Len(pf.Assets) : pf.Assets[k].Symbol = s

\* C24: when the account listing fails, GetPortfolio returns an error and no
\* portfolio (the run aborts); when the book lookup of a held asset fails or
\* the book is empty, the snapshot is still returned and the run goes on, the
\* asset is absent from Assets and adds nothing to TotalValue.
C24_SnapshotFailureSemantics ==
    /\ (fault = "accounts" => portfolio = NoPortfolio /\ returned = "error" /\ result = NoResult)
    /\ (pc \in { "GetFearGreedIndex", "calculateBuyDecisions", "loop" } => SnapshotReturned)
    /\ (SnapshotReturned =>
          /\ fault # "accounts"
          /\ \A s \in Symbols :
                /\ (snapshotInputs.books[s] \in { "error", "empty", "not_called" }
                      => ~HasAsset(portfolio, s))
                /\ (snapshotInputs.books[s] = "price" => HasAsset(portfolio, s))
          /\ portfolio.TotalValue
                = SumCash(snapshotInputs.accounts) + SumValues(portfolio.Assets))

C24_Witness ==
    /\ pc = "loop"
    /\ snapshotInputs.books["ETH"] = "error"
    /\ portfolio.Assets = <<>>
    /\ portfolio.USDCBalance = CashStep
    /\ portfolio.TotalValue = CashStep
    /\ decisions # <<>>

\* The configuration with another pair of multiplier limits
WithLimits(cfg, m) == [cfg EXCEPT !.MinMultiplier = m[1], !.MaxMultiplier = m[2]]

\* The accepted pairs of limits other than the configured one
OtherLimits == MultiplierLimits \ { << config.MinMultiplier, config.MaxMultiplier >> }

\* The answers getAssetPrice may have given for an asset in the current run,
\* as far as the run shows them: the error, the price of the asset's
\* decision, or any answer where the run does not depend on it.
AnswersFor(asset) ==
    IF lookups = <<>> THEN PriceResponses
    ELSE IF LookupFailed(asset) THEN { PriceError }
    ELSE IF DecisionsFor(asset) # <<>> THEN { PriceOf(DecisionsFor(asset)[1].Price) }
    ELSE PriceResponses \ { PriceError }

\* The error executeBuyOrder returns for decision n of plan ds, given the
\* venue's answers of the current run
ErrorFor(ds, n) ==
    IF insufficientBalance(portfolio, ds[n]) THEN "insufficient USDC balance"
    ELSE placeOrderError(OutcomeOf(n))

RECURSIVE RunLoop(_, _, _, _)
\* The loop of Execute over plan ds from position n on, and the result returned
RunLoop(ds, n, res, total) ==
    IF n > Len(ds) THEN [res EXCEPT !.TotalInvested = total, !.TotalSold = 0]
    ELSE RunLoop(ds, n + 1, recordOutcome(res, ErrorFor(ds, n)),
                 accumulate(total, ds[n], ErrorFor(ds, n)))

Failed == { n \in 1..Len(decisions) : OutcomeOf(n) \in FailureOutcomes }

\* C26: the result holds one outcome per attempted decision, in decision
\* order, each with an order identifier or a failure reason, so that after a
\* run with several failures the reason of every failed decision can be read
\* from the result. The result's only field for a reason is Error.
C26_EveryFailureReadable ==
    returned = "result" =>
        \A n \in Failed : result.Error = ErrorFor(decisions, n)

\* C27: for every v in [0,100] the multiplier lies in [0.5, 2.0], the default
\* MIN_MULTIPLIER / MAX_MULTIPLIER bounds, and it is 2.0 only at v = 0 and
\* 0.5 only at v = 100.
C27_WithinDefaultLimits ==
    HasIndex =>
        /\ fngIndex.Multiplier \in DefaultMinMultiplier..DefaultMaxMultiplier
        /\ (fngIndex.Multiplier = DefaultMaxMultiplier) = (fngIndex.Value = 0)
        /\ (fngIndex.Multiplier = DefaultMinMultiplier) = (fngIndex.Value = 100)

C27_Witness ==
    /\ HasIndex
    /\ fngIndex.Value = 100
    /\ fngIndex.Multiplier = DefaultMinMultiplier

\* Both weights of the configuration lie in [0,100]
WeightsInRange == config.BTCAllocation \in 0..100 /\ config.ETHAllocation \in 0..100

\* C28: in a run whose weights both lie in [0,100] (and sum to 100) no
\* decision fails the insufficient-balance check: every decision's amount is
\* at most cashBalance x (1 - buffer), which is at most the snapshot's cash
\* balance the check compares against.
C28_NoInsufficientBalance ==
    (PlanDone /\ WeightsInRange) =>
        /\ \A k \in 1..Len(decisions) :
              /\ decisions[k].Amount <= portfolio.USDCBalance * (BufScale - planBuffer)
                                            * (AmountScale \div BufScale)
              /\ decisions[k].Amount <= portfolio.USDCBalance * AmountScale
              /\ ~insufficientBalance(botPortfolio, decisions[k])
        /\ \A k \in 1..Len(attempts) : attempts[k].outcome # "insufficient"

C28_Witness ==
    /\ returned = "result"
    /\ config.BTCAllocation = 100
    /\ planBuffer = 0
    /\ Len(decisions) = 1
    /\ decisions[1].Amount = portfolio.USDCBalance * AmountScale
    /\ OutcomeOf(1) = "success"

\* The last decision in plan order that failed (0 if none failed)
LastFailed == IF Failed = {} THEN 0 ELSE CHOOSE n \in Failed : \A k \in Failed : k <= n

\* C29: in every result returned by Execute, Error is non-empty iff Success
\* is false, and when several decisions failed it is the failure message of
\* the last failed decision in plan order.
C29_ErrorIsLastFailure ==
    returned = "result" =>
        /\ (result.Error # "") = ~result.Success
        /\ (Failed # {} => result.Error = ErrorFor(decisions, LastFailed))

C29_Witness ==
    /\ returned = "result"
    /\ Len(decisions) = 2
    /\ OutcomeOf(1) = "submit_error"
    /\ OutcomeOf(2) = "rejected"
    /\ result.Error = "order failed"
    /\ ~result.Success

=============================================================================
